---- MODULE Spec2Model ----
(***************************************************************************)
(* Model of pathwayfunctions.py: t_tests (two-group t-tests per metabolite *)
(* column) and over_representation_analysis (Fisher exact test per         *)
(* pathway).  Python lists are sequences, DataFrames are records of a      *)
(* column list and a row list, p-values are exact rationals.               *)
(***************************************************************************)
EXTENDS Integers, Sequences, FiniteSets, TLC

VARIABLES
    DA_list,            \* argument of over_representation_analysis
    background_list,    \* argument of over_representation_analysis
    pathways_df,        \* argument of over_representation_analysis
    ora_results,        \* value returned by over_representation_analysis
    ora_locals,         \* the lists the call built, and the tables it handed to fisher_exact
    first_df,           \* the pathway table of the first call
    first_results,      \* the value returned by the first call
    ora_pc,             \* "ready" before a call, "returned" after it
    reorders,           \* number of times the caller reordered the pathway table
    matrix,             \* the caller's abundance matrix (t_tests mutates it)
    classes,            \* the caller's class labels, one per row of the matrix
    called_with,        \* the classes argument of the latest t_tests call
    return_stat,        \* the return_stat argument of the latest t_tests call
    tt_results,         \* value returned by the latest t_tests call
    disease,            \* the disease frame of the latest t_tests call
    ctrl,               \* the ctrl frame of the latest t_tests call
    columns0,           \* the columns of the matrix when the caller built it
    classes0,           \* the class labels when the caller built them
    calls               \* number of t_tests calls made on the matrix

ora_vars == <<DA_list, background_list, pathways_df, ora_results, ora_locals,
              first_df, first_results, ora_pc, reorders>>
tt_vars == <<matrix, classes, called_with, return_stat, tt_results, disease, ctrl,
             columns0, classes0, calls>>
vars == <<ora_vars, tt_vars>>

----------------------------------------------------------------------------
(* Bounds of the model *)

MaxPathways == 1
MaxDA == 2
MaxRepeatsDA == 3
MaxCoverageDA == 1
MaxReorderPathways == 2
MaxReorders == 1
MaxSamples == 4
MaxCalls == 2

(* Domains the inputs are drawn from *)

Range(s) == {s[i] : i \in DOMAIN s}

CompoundOrder == <<"C1", "C2", "C3", "C4">>
Compounds == Range(CompoundOrder)
SmallCompounds == {"C1", "C2", "C3"}
NaN == "nan"
PathwayIDs == <<"P1", "P2", "P3", "P4">>
PathwayNames == <<"N1", "N2", "N3", "N4">>
\* the compound-slot columns of the pathway table, narrow and wide
SlotColumns == <<"cpd1", "cpd2">>
WideSlotColumns == <<"cpd1", "cpd2", "cpd3">>
\* the rows the tables of the reordering runs are built from
PathwayCatalogue ==
    <<[id |-> "P1", Pathway_name |-> "N1", slots |-> <<"C1", "C2">>],
      [id |-> "P2", Pathway_name |-> "N2", slots |-> <<"C1", "C3">>],
      [id |-> "P3", Pathway_name |-> "N3", slots |-> <<"C3", "C2">>],
      [id |-> "P4", Pathway_name |-> "N4", slots |-> <<"C2", NaN>>],
      [id |-> "P5", Pathway_name |-> "N5", slots |-> <<NaN, NaN>>]>>
MetaboliteNames == <<"M1", "M2">>
Labels == {"a", "b", "c"}
TwoLabels == {"a", "b"}
Abundances == {0, 1}
Methods == {"fdr_bh"}

----------------------------------------------------------------------------
(* Generic helpers *)

SeqsUpTo(S, n) == UNION {[1..k -> S] : k \in 0..n}

RECURSIVE GCD(_, _)
GCD(a, b) == IF b = 0 THEN a ELSE GCD(b, a % b)

\* an exact rational in lowest terms; den > 0
Rat(n, d) == LET g == GCD(n, d) IN [num |-> n \div g, den |-> d \div g]

RatLeq(p, q) == p.num * q.den <= q.num * p.den

RECURSIVE Choose(_, _)
Choose(n, k) == IF k < 0 \/ k > n THEN 0
                ELSE IF k = 0 THEN 1
                ELSE (Choose(n - 1, k - 1) * n) \div k

\* the sum of a list of numbers
RECURSIVE SumSeq(_)
SumSeq(xs) == IF Len(xs) = 0 THEN 0 ELSE Head(xs) + SumSeq(Tail(xs))

\* str() of a non-negative int
Digits == <<"0", "1", "2", "3", "4", "5", "6", "7", "8", "9">>

RECURSIVE str(_)
str(n) == IF n < 10 THEN Digits[n + 1] ELSE str(n \div 10) \o Digits[(n % 10) + 1]

\* zip(l1, ..., lk): tuples up to the length of the shortest list
zip(lists) ==
    LET n == IF Len(lists) = 0 THEN 0
             ELSE CHOOSE m \in {Len(lists[j]) : j \in DOMAIN lists} :
                      \A j \in DOMAIN lists : m <= Len(lists[j])
    IN [i \in 1..n |-> [j \in DOMAIN lists |-> lists[j][i]]]

\* pd.DataFrame(rows, columns=...): every row must have one value per column
DataFrame(rows, columns) ==
    IF \A i \in DOMAIN rows : Len(rows[i]) = Len(columns)
    THEN [error |-> "", columns |-> columns, rows |-> rows]
    ELSE [error |-> "ValueError", columns |-> <<>>, rows |-> <<>>]

\* the value of a call that ended in an uncaught exception
Raised(exception) == [error |-> exception, columns |-> <<>>, rows |-> <<>>]

\* no value: the function has not been called
NotCalled == [error |-> "not called", columns |-> <<>>, rows |-> <<>>]

----------------------------------------------------------------------------
(* over_representation_analysis *)

\* np.setdiff1d: the unique values of ar1 that are not in ar2
setdiff1d(ar1, ar2) == {x \in ar1 : x \notin ar2}

\* the values of a Python list or array, as np.setdiff1d and set() see them
unique(list) == Range(list)

\* dropna(axis=0, how='all', subset=columns[1:]) on the pathway table
dropna(df) == SelectSeq(df, LAMBDA row : \E j \in DOMAIN row.slots : row.slots[j] # NaN)

\* list(set(row)) without the "nan" entries
pathway_compounds_of(row) == {x \in Range(row.slots) : x # NaN}

DA_in_pathway(DA, pathway_compounds) ==
    Cardinality(unique(DA) \cap pathway_compounds)

\* variant: every occurrence in DA is counted, repeats included
DA_not_in_pathway_repeats(DA, pathway_compounds) ==
    Len(SelectSeq(DA, LAMBDA x : x \notin pathway_compounds))

DA_not_in_pathway(DA, pathway_compounds) ==
    Cardinality(setdiff1d(unique(DA), pathway_compounds))

compound_in_pathway_not_DA(DA, background, pathway_compounds) ==
    Cardinality(pathway_compounds \cap setdiff1d(unique(background), unique(DA)))

\* variant: the DA compounds are not taken out of the background
compound_not_in_pathway_with_DA(DA, background, pathway_compounds) ==
    Cardinality(setdiff1d(unique(background), pathway_compounds))

compound_not_in_pathway_not_DA(DA, background, pathway_compounds) ==
    Cardinality(setdiff1d(setdiff1d(unique(background), unique(DA)), pathway_compounds))

contingency_table(DA, background, pathway_compounds) ==
    <<<<DA_in_pathway(DA, pathway_compounds),
        compound_in_pathway_not_DA(DA, background, pathway_compounds)>>,
      <<DA_not_in_pathway(DA, pathway_compounds),
        compound_not_in_pathway_not_DA(DA, background, pathway_compounds)>>>>

\* variant: the tail leaves out the observed table
fisher_exact_strictly_greater(t) ==
    LET n1 == t[1][1] + t[1][2]
        n2 == t[2][1] + t[2][2]
        col1 == t[1][1] + t[2][1]
        col2 == t[1][2] + t[2][2]
        terms == [k \in 1..t[1][2] |-> Choose(n1, k - 1) * Choose(n2, col2 - (k - 1))]
    IN IF n1 = 0 \/ n2 = 0 \/ col1 = 0 \/ col2 = 0 THEN Rat(1, 1)
       ELSE Rat(SumSeq(terms), Choose(n1 + n2, col2))

\* stats.fisher_exact(table, alternative="greater")[1]: 1.0 when a row or a
\* column sums to zero, else the hypergeometric probability of at most
\* table[1][2] row-one members among the second column
fisher_exact_greater(t) ==
    LET n1 == t[1][1] + t[1][2]
        n2 == t[2][1] + t[2][2]
        col1 == t[1][1] + t[2][1]
        col2 == t[1][2] + t[2][2]
        terms == [k \in 1..(t[1][2] + 1) |-> Choose(n1, k - 1) * Choose(n2, col2 - (k - 1))]
    IN IF n1 = 0 \/ n2 = 0 \/ col1 = 0 \/ col2 = 0 THEN Rat(1, 1)
       ELSE Rat(SumSeq(terms), Choose(n1 + n2, col2))

\* the exception sm.stats.multipletests raises: it divides by the number of
\* p-values
multipletests_error(pvalues) == IF Len(pvalues) = 0 THEN "ZeroDivisionError" ELSE ""

\* variant: the except clause names another exception
except_clause_value_error == "ValueError"

\* the exception the except clause catches
except_clause == "ZeroDivisionError"

\* sm.stats.multipletests(pvalues, 0.05, method="fdr_bh")[1] of a non-empty list
fdr_bh(pvalues) ==
    IF Len(pvalues) = 0 THEN <<>>
    ELSE LET m == Len(pvalues)
             rank(j) == Cardinality({k \in 1..m : RatLeq(pvalues[k], pvalues[j])})
             scaled(j) == Rat(pvalues[j].num * m, pvalues[j].den * rank(j))
             above(i) == {j \in 1..m : RatLeq(pvalues[i], pvalues[j])}
             least(i) == CHOOSE j \in above(i) :
                             \A k \in above(i) : RatLeq(scaled(j), scaled(k))
         IN [i \in 1..m |-> IF RatLeq(scaled(least(i)), Rat(1, 1))
                            THEN scaled(least(i)) ELSE Rat(1, 1)]

ORAColumns == <<"Pathway_ID", "Pathway_name", "Hits", "Coverage", "P-value", "P-adjust">>

EmptyAcc == [pathways_with_compounds |-> <<>>,
             pathway_names_with_compounds |-> <<>>,
             pvalues |-> <<>>,
             pathway_ratio |-> <<>>,
             pathway_count |-> 0,
             pathway_coverage |-> <<>>,
             tables |-> <<>>]

\* pathway_dict[pathway]: dict(zip(pathways, pathway_names)), the last row
\* of an ID wins
pathway_dict(KEGG_pathways, pathway) ==
    LET last == CHOOSE i \in DOMAIN KEGG_pathways :
                    /\ KEGG_pathways[i].id = pathway
                    /\ \A j \in DOMAIN KEGG_pathways :
                           KEGG_pathways[j].id = pathway => j <= i
    IN KEGG_pathways[last].Pathway_name

\* variant: the first skip test asks for 3 compounds, as its comment says
too_few_compounds_three(pathway_compounds) ==
    pathway_compounds = {} \/ Cardinality(pathway_compounds) < 3

\* the first skip test: no compounds, or fewer than 2
too_few_compounds(pathway_compounds) ==
    pathway_compounds = {} \/ Cardinality(pathway_compounds) < 2

\* the second skip test: no DA compound in the pathway, or fewer than 2
\* compounds of the pathway among DA and background
no_hits(a, b) == a = 0 \/ (b + a) < 2

\* the "Hits" entry
hits_string(a, b) == str(a) \o "/" \o str(b + a)

\* variant: the "Coverage" entry counts the DA compounds only
coverage_string_hits_only(a, b, pathway_compounds) ==
    str(a) \o "/" \o str(Cardinality(pathway_compounds))

\* the "Coverage" entry
coverage_string(a, b, pathway_compounds) ==
    str(b + a) \o "/" \o str(Cardinality(pathway_compounds))

\* one iteration of the loop over the pathways
ora_iteration(acc, KEGG_pathways, i, DA, background) ==
    LET pathway == KEGG_pathways[i].id
        pathway_compounds == pathway_compounds_of(KEGG_pathways[i])
        a == DA_in_pathway(DA, pathway_compounds)
        b == compound_in_pathway_not_DA(DA, background, pathway_compounds)
        table == contingency_table(DA, background, pathway_compounds)
    IN IF too_few_compounds(pathway_compounds) THEN acc
       ELSE IF no_hits(a, b) THEN acc
       ELSE [pathways_with_compounds |-> Append(acc.pathways_with_compounds, pathway),
             pathway_names_with_compounds |->
                 Append(acc.pathway_names_with_compounds,
                        pathway_dict(KEGG_pathways, pathway)),
             pvalues |-> Append(acc.pvalues, fisher_exact_greater(table)),
             pathway_ratio |-> Append(acc.pathway_ratio, hits_string(a, b)),
             pathway_count |-> acc.pathway_count + 1,
             pathway_coverage |->
                 Append(acc.pathway_coverage, coverage_string(a, b, pathway_compounds)),
             tables |-> Append(acc.tables, table)]

\* variant: the loop runs over the pathways from the last to the first
RECURSIVE ora_loop_reversed(_, _, _, _, _)
ora_loop_reversed(acc, KEGG_pathways, i, DA, background) ==
    IF i > Len(KEGG_pathways) THEN acc
    ELSE ora_loop_reversed(ora_iteration(acc, KEGG_pathways, Len(KEGG_pathways) + 1 - i,
                                         DA, background),
                           KEGG_pathways, i + 1, DA, background)

RECURSIVE ora_loop(_, _, _, _, _)
ora_loop(acc, KEGG_pathways, i, DA, background) ==
    IF i > Len(KEGG_pathways) THEN acc
    ELSE ora_loop(ora_iteration(acc, KEGG_pathways, i, DA, background),
                  KEGG_pathways, i + 1, DA, background)

\* the lists the loop has built when it ends
ora_lists(DA, background, df) == ora_loop(EmptyAcc, dropna(df), 1, DA, background)

\* the try/except around the correction and the construction of the result,
\* from the lists the loop built
ora_results_of(acc) ==
    LET padj == fdr_bh(acc.pvalues)
        exception == multipletests_error(acc.pvalues)
    IN IF exception = ""
       THEN DataFrame(zip(<<acc.pathways_with_compounds, acc.pathway_names_with_compounds,
                            acc.pathway_ratio, acc.pathway_coverage, acc.pvalues, padj>>),
                      ORAColumns)
       ELSE IF exception # except_clause THEN Raised(exception)
       ELSE DataFrame(zip(<<acc.pathways_with_compounds, acc.pathway_names_with_compounds,
                            acc.pathway_ratio, acc.pvalues,
                            [i \in 1..Len(acc.pvalues) |-> 1]>>),
                      ORAColumns)

----------------------------------------------------------------------------
(* t_tests *)

\* pd.factorize(classes)[0]: integer codes in order of first appearance
factorize(cls) ==
    LET first(i) == CHOOSE j \in 1..i : cls[j] = cls[i] /\ \A k \in 1..(j - 1) : cls[k] # cls[i]
        firsts == {first(i) : i \in DOMAIN cls}
    IN [i \in DOMAIN cls |-> Cardinality({j \in firsts : j < first(i)})]

\* position of a column in a frame, 0 when the frame has no such column
column_position(frame, name) ==
    IF \E j \in DOMAIN frame.columns : frame.columns[j] = name
    THEN CHOOSE j \in DOMAIN frame.columns : frame.columns[j] = name
    ELSE 0

\* frame[name] = values: replaces the column in place, or appends a new one
set_column(frame, name, values) ==
    LET pos == column_position(frame, name)
    IN IF pos = 0
       THEN [index |-> frame.index,
             columns |-> Append(frame.columns, name),
             rows |-> [i \in DOMAIN frame.rows |-> Append(frame.rows[i], values[i])]]
       ELSE [index |-> frame.index,
             columns |-> frame.columns,
             rows |-> [i \in DOMAIN frame.rows |->
                          [frame.rows[i] EXCEPT ![pos] = values[i]]]]

\* the positions where a boolean mask is true, in increasing order, from i on
RECURSIVE positions_where(_, _)
positions_where(mask, i) ==
    IF i > Len(mask) THEN <<>>
    ELSE IF mask[i] THEN <<i>> \o positions_where(mask, i + 1)
    ELSE positions_where(mask, i + 1)

\* frame[mask].copy(): the rows the boolean mask selects, with their index labels
select_rows(frame, mask) ==
    LET keep == positions_where(mask, 1)
    IN [index |-> [k \in DOMAIN keep |-> frame.index[keep[k]]],
        columns |-> frame.columns,
        rows |-> [k \in DOMAIN keep |-> frame.rows[keep[k]]]]

\* variant: the column is not dropped
drop_forgotten(frame, name) == frame

\* frame.drop([name], axis=1, inplace=True)
drop(frame, name) ==
    LET keep == positions_where([j \in DOMAIN frame.columns |-> frame.columns[j] # name], 1)
    IN [index |-> frame.index,
        columns |-> [k \in DOMAIN keep |-> frame.columns[keep[k]]],
        rows |-> [i \in DOMAIN frame.rows |->
                     [k \in DOMAIN keep |-> frame.rows[i][keep[k]]]]]

\* the rows of group A: Target == 0
disease_mask(target) == target = 0

\* variant: group B is the rows of code 1 only
ctrl_mask_code_one(target) == target = 1

\* the rows of group B: Target != 0
ctrl_mask(target) == target # 0

\* the values of one column of a frame, top to bottom
column_values(frame, j) == [i \in DOMAIN frame.rows |-> frame.rows[i][j]]

SumSquares(xs) == SumSeq([i \in DOMAIN xs |-> xs[i] * xs[i]])

\* stats.ttest_ind(xs, ys) of one column, equal variances.  With
\*   D = sum(xs)*ny - sum(ys)*nx,
\*   W = ny*(nx*sumsq(xs) - sum(xs)^2) + nx*(ny*sumsq(ys) - sum(ys)^2)
\* the statistic is sign(D) * sqrt(D^2 * df / (W * (nx + ny))); it is nan when
\* a group has fewer than 2 values (its variance is nan) or when D = W = 0,
\* and infinite when W = 0 # D.  The p-value is the two-sided tail of
\* Student's t with df degrees of freedom beyond the statistic; it is kept as
\* that pair.
ttest_ind_column(xs, ys) ==
    LET nx == Len(xs)
        ny == Len(ys)
        df == nx + ny - 2
        D == SumSeq(xs) * ny - SumSeq(ys) * nx
        W == ny * (nx * SumSquares(xs) - SumSeq(xs) * SumSeq(xs))
             + nx * (ny * SumSquares(ys) - SumSeq(ys) * SumSeq(ys))
        sign == IF D > 0 THEN 1 ELSE IF D < 0 THEN -1 ELSE 0
        nan == [kind |-> "nan", sign |-> 0, square |-> Rat(0, 1)]
        t == IF nx < 2 \/ ny < 2 THEN nan
             ELSE IF W = 0 THEN (IF D = 0 THEN nan
                                 ELSE [kind |-> "inf", sign |-> sign, square |-> Rat(0, 1)])
             ELSE [kind |-> "finite", sign |-> sign,
                   square |-> Rat(D * D * df, W * (nx + ny))]
    IN [statistic |-> t,
        pvalue |-> [kind |-> t.kind, square |-> t.square, df |-> IF t.kind = "nan" THEN 0 ELSE df]]

\* stats.ttest_ind(a, b): one test per column of the two frames
ttest_ind(a, b) ==
    [j \in DOMAIN a.columns |-> ttest_ind_column(column_values(a, j), column_values(b, j))]

\* sm.stats.multipletests(pvalues, 0.05, method)[1], kept as the application
\* of the method to the family of p-values
multipletests(pvalues, method) ==
    [i \in DOMAIN pvalues |-> [method |-> method, family |-> pvalues, position |-> i]]

\* a call of t_tests: the matrix as the call leaves it, the two frames it
\* builds and the value it returns
t_tests(m, cls, multiple_correction_method, stat) ==
    LET metabolites == m.columns
        with_target == set_column(m, "Target", factorize(cls))
        target == column_values(with_target, column_position(with_target, "Target"))
        disease_frame ==
            drop(select_rows(with_target, [i \in DOMAIN target |-> disease_mask(target[i])]),
                 "Target")
        ctrl_frame ==
            drop(select_rows(with_target, [i \in DOMAIN target |-> ctrl_mask(target[i])]),
                 "Target")
        tests == ttest_ind(disease_frame, ctrl_frame)
        pvalues == [j \in DOMAIN tests |-> tests[j].pvalue]
        tstat == [j \in DOMAIN tests |-> tests[j].statistic]
        padj == multipletests(pvalues, multiple_correction_method)
    IN [matrix |-> with_target,
        disease |-> disease_frame,
        ctrl |-> ctrl_frame,
        results |->
            IF stat
            THEN DataFrame(zip(<<metabolites, pvalues, padj, tstat>>),
                           <<"Metabolite", "P-value", "P-adjust", "t-statistic">>)
            ELSE DataFrame(zip(<<metabolites, pvalues, padj>>),
                           <<"Metabolite", "P-value", "P-adjust">>)]

----------------------------------------------------------------------------
(* Initial states and actions *)

NoFrame == [index |-> <<>>, columns |-> <<>>, rows |-> <<>>]

\* the pathway tables of up to n rows over a set of compounds, one slot per
\* slot column; the index is unique
PathwayTables(compounds, n, slot_columns) ==
    UNION {{[i \in 1..k |-> [id |-> PathwayIDs[i],
                             Pathway_name |-> PathwayNames[i],
                             slots |-> f[i]]] :
               f \in [1..k -> [DOMAIN slot_columns -> compounds \cup {NaN}]]} : k \in 0..n}

\* the pathway tables of up to n distinct rows of the catalogue, in any order
CatalogueTables(n) ==
    {[i \in DOMAIN picks |-> PathwayCatalogue[picks[i]]] :
        picks \in {q \in SeqsUpTo(DOMAIN PathwayCatalogue, n) :
                      \A i \in DOMAIN q, j \in DOMAIN q : i # j => q[i] # q[j]}}

\* the background lists: the subsets of a set of compounds, each as a list
BackgroundLists(compounds) ==
    {SelectSeq(CompoundOrder, LAMBDA c : c \in S) : S \in SUBSET compounds}

\* the abundance matrices: 1..MaxSamples rows, one column per metabolite of
\* a non-empty prefix of the metabolite names
Matrices ==
    UNION {{[index |-> [i \in 1..r |-> i],
             columns |-> [j \in 1..c |-> MetaboliteNames[j]],
             rows |-> data] : data \in [1..r -> [1..c -> Abundances]]} :
           r \in 1..MaxSamples, c \in DOMAIN MetaboliteNames}

IdleORA ==
    /\ DA_list = <<>>
    /\ background_list = <<>>
    /\ pathways_df = <<>>
    /\ ora_results = NotCalled
    /\ ora_locals = EmptyAcc
    /\ first_df = <<>>
    /\ first_results = NotCalled
    /\ ora_pc = "idle"
    /\ reorders = 0

IdleT ==
    /\ matrix = NoFrame
    /\ classes = <<>>
    /\ called_with = <<>>
    /\ return_stat = FALSE
    /\ tt_results = NotCalled
    /\ disease = NoFrame
    /\ ctrl = NoFrame
    /\ columns0 = <<>>
    /\ classes0 = <<>>
    /\ calls = 0

InitInputsORA(DA_lists, compounds, tables) ==
    /\ DA_list \in DA_lists
    /\ background_list \in BackgroundLists(compounds)
    /\ pathways_df \in tables
    /\ ora_results = NotCalled
    /\ ora_locals = EmptyAcc
    /\ first_df = pathways_df
    /\ first_results = NotCalled
    /\ ora_pc = "ready"
    /\ reorders = 0

InitORA ==
    /\ InitInputsORA(SeqsUpTo(Compounds, MaxDA), Compounds,
                     PathwayTables(Compounds, MaxPathways, SlotColumns))
    /\ IdleT

InitRepeats ==
    /\ InitInputsORA(SeqsUpTo(SmallCompounds, MaxRepeatsDA), SmallCompounds,
                     PathwayTables(SmallCompounds, MaxPathways, SlotColumns))
    /\ IdleT

InitCoverage ==
    /\ InitInputsORA(SeqsUpTo(SmallCompounds, MaxCoverageDA), SmallCompounds,
                     PathwayTables(SmallCompounds, MaxPathways, WideSlotColumns))
    /\ IdleT

InitReorder ==
    /\ InitInputsORA(SeqsUpTo(SmallCompounds, MaxDA), SmallCompounds,
                     CatalogueTables(MaxReorderPathways))
    /\ IdleT

InitMatrix(labels) ==
    /\ matrix \in Matrices
    /\ classes \in [1..Len(matrix.rows) -> labels]
    /\ called_with = <<>>
    /\ return_stat = FALSE
    /\ tt_results = NotCalled
    /\ disease = NoFrame
    /\ ctrl = NoFrame
    /\ columns0 = matrix.columns
    /\ classes0 = classes
    /\ calls = 0
    /\ IdleORA

InitT == InitMatrix(TwoLabels)

InitPartition == InitMatrix(Labels) /\ Len(matrix.columns) = 1

\* a call of over_representation_analysis: the loop, then the correction and
\* the result table
Analyze ==
    /\ ora_pc = "ready"
    /\ ora_locals' = ora_lists(DA_list, background_list, pathways_df)
    /\ ora_results' = ora_results_of(ora_locals')
    /\ first_results' = IF first_results = NotCalled THEN ora_results' ELSE first_results
    /\ ora_pc' = "returned"
    /\ UNCHANGED <<DA_list, background_list, pathways_df, first_df, reorders, tt_vars>>

\* the caller exchanges two neighbouring rows of the pathway table
Reorder(i) ==
    /\ ora_pc = "returned"
    /\ reorders < MaxReorders
    /\ i \in 1..(Len(pathways_df) - 1)
    /\ pathways_df' = [pathways_df EXCEPT ![i] = pathways_df[i + 1],
                                          ![i + 1] = pathways_df[i]]
    /\ ora_pc' = "ready"
    /\ reorders' = reorders + 1
    /\ UNCHANGED <<DA_list, background_list, ora_results, ora_locals, first_df,
                   first_results, tt_vars>>

\* a call of t_tests on the caller's matrix
TTests(method, stat) ==
    /\ calls < MaxCalls
    /\ \E call \in {t_tests(matrix, classes, method, stat)} :
          /\ matrix' = call.matrix
          /\ disease' = call.disease
          /\ ctrl' = call.ctrl
          /\ tt_results' = call.results
    /\ called_with' = classes
    /\ return_stat' = stat
    /\ calls' = calls + 1
    /\ UNCHANGED <<classes, columns0, classes0, ora_vars>>

\* between two calls the caller gives the first sample the label of another
\* sample
RelabelFirst(label) ==
    /\ calls > 0
    /\ calls < MaxCalls
    /\ classes = called_with
    /\ label \in Range(classes)
    /\ label # classes[1]
    /\ classes' = [classes EXCEPT ![1] = label]
    /\ UNCHANGED <<matrix, called_with, return_stat, tt_results, disease, ctrl,
                   columns0, classes0, calls, ora_vars>>

NextORA == Analyze

NextReorder == Analyze \/ \E i \in 1..MaxReorderPathways : Reorder(i)

NextT ==
    \/ \E method \in Methods, stat \in BOOLEAN : TTests(method, stat)
    \/ \E label \in Labels : RelabelFirst(label)

SpecORA == InitORA /\ [][NextORA]_vars

SpecRepeats == InitRepeats /\ [][NextORA]_vars

SpecCoverage == InitCoverage /\ [][NextORA]_vars

SpecReorder == InitReorder /\ [][NextReorder]_vars

SpecT == InitT /\ [][NextT]_vars

SpecPartition == InitPartition /\ [][NextT]_vars

----------------------------------------------------------------------------
(* Properties of t_tests *)

HelperColumn == "Target"

\* the rows of the caller's matrix whose label is / is not the first label
LabelRows(first) ==
    positions_where([k \in DOMAIN called_with |-> (called_with[k] = called_with[1]) = first], 1)

\* the values of a named column of the caller's matrix at the given rows
ValuesAt(name, at) ==
    [k \in DOMAIN at |-> matrix.rows[at[k]][column_position(matrix, name)]]

\* C1: a call of t_tests leaves the columns of the caller's matrix as they
\* were, after any number of calls: no helper column remains
C1_MatrixColumnsUntouched == matrix.columns = columns0

\* C2: after every call, the first included, the result has one row per
\* metabolite column, row i holds the identifier and the p-value of the i-th
\* metabolite column, and no row is labelled with the helper column
C2_OneRowPerMetabolite ==
    calls > 0 =>
        /\ tt_results.error = ""
        /\ Len(tt_results.rows) = Len(columns0)
        /\ \A i \in DOMAIN tt_results.rows :
               /\ tt_results.rows[i][1] = columns0[i]
               /\ tt_results.rows[i][1] # HelperColumn
               /\ tt_results.rows[i][2] =
                      ttest_ind_column(ValuesAt(columns0[i], LabelRows(TRUE)),
                                       ValuesAt(columns0[i], LabelRows(FALSE))).pvalue

C2_SecondCallTwoMetabolites ==
    /\ calls = 2
    /\ called_with # classes0
    /\ HelperColumn \in Range(matrix.columns)
    /\ Len(columns0) = 2
    /\ Len(tt_results.rows) = 2
    /\ tt_results.rows[1][2].kind = "finite"
    /\ tt_results.rows[1][2] # tt_results.rows[2][2]

\* C9: the two groups split the samples: every row of the matrix is in
\* exactly one of disease and ctrl, none twice, disease holds the rows of the
\* first-seen label and ctrl the rows of every other label
C9_StrictBipartition ==
    calls > 0 =>
        /\ Range(disease.index) \cup Range(ctrl.index) = Range(matrix.index)
        /\ Range(disease.index) \cap Range(ctrl.index) = {}
        /\ Len(disease.index) + Len(ctrl.index) = Len(matrix.index)
        /\ \A k \in DOMAIN called_with :
               /\ matrix.index[k] \in Range(disease.index) <=> called_with[k] = called_with[1]
               /\ matrix.index[k] \in Range(ctrl.index) <=> called_with[k] # called_with[1]

C9_ThreeLabelsPooled ==
    /\ calls = 2
    /\ called_with # classes0
    /\ Cardinality(Range(called_with)) = 3
    /\ Cardinality({called_with[k] : k \in Range(ctrl.index)}) = 2
    /\ Len(disease.index) = 2

----------------------------------------------------------------------------
(* Properties of over_representation_analysis *)

\* the distinct non-missing compounds of a row of the pathway table
Members(row) == Range(row.slots) \ {NaN}

HitsA(row) == Cardinality(Range(DA_list) \cap Members(row))

HitsB(row) == Cardinality(Members(row) \cap (Range(background_list) \ Range(DA_list)))

HitsC(row) == Cardinality(Range(DA_list) \ Members(row))

HitsD(row) == Cardinality((Range(background_list) \ Range(DA_list)) \ Members(row))

\* the row of the pathway table with a given ID
RowOf(id) == pathways_df[CHOOSE k \in DOMAIN pathways_df : pathways_df[k].id = id]

PositionOf(id) == CHOOSE k \in DOMAIN pathways_df : pathways_df[k].id = id

OutputIDs == {ora_results.rows[i][1] : i \in DOMAIN ora_results.rows}

\* DA_list = {C1, C2}, background_list = {C1, C2, C3, C4}, one pathway {C1, C3}
ExampleInputs ==
    /\ Range(DA_list) = {"C1", "C2"}
    /\ Range(background_list) = {"C1", "C2", "C3", "C4"}
    /\ Len(pathways_df) = 1
    /\ Members(pathways_df[1]) = {"C1", "C3"}

C4_ContingencyTable ==
    ora_pc = "returned" =>
        /\ Len(ora_locals.tables) = Len(ora_results.rows)
        /\ \A i \in DOMAIN ora_results.rows :
               LET row == RowOf(ora_results.rows[i][1])
                   t == ora_locals.tables[i]
               IN /\ t = <<<<HitsA(row), HitsB(row)>>, <<HitsC(row), HitsD(row)>>>>
                  /\ \A x \in 1..2, y \in 1..2 : t[x][y] >= 0
        /\ ExampleInputs => ora_locals.tables = << <<<<1, 1>>, <<1, 1>>>> >>

C4_ExampleAnalyzed ==
    /\ ora_pc = "returned"
    /\ ExampleInputs
    /\ Len(ora_locals.tables) = 1

\* the number of entries of DA_list, repeats included, that are outside a pathway
OccurrencesOutside(row) == Len(SelectSeq(DA_list, LAMBDA x : x \notin Members(row)))

\* C5 as stated: c counts every occurrence of a DA identifier outside the
\* pathway, repeats included
C5_CountsOccurrences ==
    ora_pc = "returned" =>
        \A i \in DOMAIN ora_results.rows :
            ora_locals.tables[i][2][1] = OccurrencesOutside(RowOf(ora_results.rows[i][1]))

\* C5 amended: c counts the distinct DA identifiers outside the pathway,
\* however often DA_list repeats them, as a counts the distinct ones inside
C5_CountsDistinct ==
    ora_pc = "returned" =>
        \A i \in DOMAIN ora_results.rows :
            LET row == RowOf(ora_results.rows[i][1])
            IN /\ ora_locals.tables[i][2][1] =
                      Cardinality({x \in Range(DA_list) : x \notin Members(row)})
               /\ ora_locals.tables[i][1][1] =
                      Cardinality({x \in Range(DA_list) : x \in Members(row)})

C5_RepeatOutsidePathway ==
    /\ ora_pc = "returned"
    /\ Len(ora_results.rows) = 1
    /\ OccurrencesOutside(pathways_df[1]) = 2
    /\ ora_locals.tables[1][2][1] = 1

\* the fields of an output row the reordering claim compares
RowFields(r) == <<r[1], r[2], r[3], r[4], r[5]>>

\* C6: the output rows are in the order of the pathway table, and after any
\* reordering of the table they are the rows of the first call (ID, name,
\* Hits, Coverage, p-value), in the new order of the table
C6_OutputFollowsTableOrder ==
    ora_pc = "returned" =>
        /\ ora_results.error = ""
        /\ \A i \in DOMAIN ora_results.rows, j \in DOMAIN ora_results.rows :
               i < j => PositionOf(ora_results.rows[i][1]) < PositionOf(ora_results.rows[j][1])
        /\ Len(ora_results.rows) = Len(first_results.rows)
        /\ {RowFields(ora_results.rows[i]) : i \in DOMAIN ora_results.rows}
               = {RowFields(first_results.rows[i]) : i \in DOMAIN first_results.rows}

C6_ReorderedAndAnalyzed ==
    /\ ora_pc = "returned"
    /\ pathways_df # first_df
    /\ Len(ora_results.rows) = 2
    /\ ora_results.rows[1][3] # ora_results.rows[2][3]
    /\ ora_results.rows[1] = first_results.rows[2]

\* C7: when no pathway is retained the call raises nothing and returns the
\* empty table of the six columns
C7_EmptyResultOnNoPathway ==
    (ora_pc = "returned" /\ ora_locals.pvalues = <<>>) =>
        /\ ora_results.error = ""
        /\ ora_results.rows = <<>>
        /\ ora_results.columns = <<"Pathway_ID", "Pathway_name", "Hits", "Coverage",
                                   "P-value", "P-adjust">>

C7_NothingRetained ==
    /\ ora_pc = "returned"
    /\ ora_locals.pvalues = <<>>
    /\ Len(pathways_df) = 1
    /\ Cardinality(Members(pathways_df[1])) = 2

\* C8 as stated: the p-value of the example inputs is 1
C8_ExamplePValueOne ==
    (ora_pc = "returned" /\ ExampleInputs) =>
        /\ Len(ora_results.rows) = 1
        /\ ora_results.rows[1][5].num = ora_results.rows[1][5].den

\* C8 amended: the p-value of the example inputs is 5/6, the probability of
\* at least one hit
C8_ExamplePValueFiveSixths ==
    (ora_pc = "returned" /\ ExampleInputs) =>
        /\ Len(ora_results.rows) = 1
        /\ ora_results.rows[1][5].num * 6 = ora_results.rows[1][5].den * 5

C8_ExamplePValueComputed ==
    /\ ora_pc = "returned"
    /\ ExampleInputs
    /\ Len(ora_results.rows) = 1
    /\ ora_results.rows[1][3] = "1/2"

\* C10: Hits is "a/(a+b)", Coverage is "(a+b)/n" with n the number of distinct
\* non-missing compounds, 1 <= a <= a+b <= n, and the five lists of the call
\* have one length
C10_HitsAndCoverage ==
    ora_pc = "returned" =>
        /\ \A i \in DOMAIN ora_results.rows :
               LET row == RowOf(ora_results.rows[i][1])
                   a == HitsA(row)
                   b == HitsB(row)
                   n == Cardinality(Members(row))
               IN /\ ora_results.rows[i][3] = Digits[a + 1] \o "/" \o Digits[a + b + 1]
                  /\ ora_results.rows[i][4] = Digits[a + b + 1] \o "/" \o Digits[n + 1]
                  /\ 1 <= a
                  /\ a <= a + b
                  /\ a + b <= n
        /\ Len(ora_locals.pathway_names_with_compounds) = Len(ora_locals.pathways_with_compounds)
        /\ Len(ora_locals.pathway_ratio) = Len(ora_locals.pathways_with_compounds)
        /\ Len(ora_locals.pathway_coverage) = Len(ora_locals.pathways_with_compounds)
        /\ Len(ora_locals.pvalues) = Len(ora_locals.pathways_with_compounds)

C10_PartialCoverage ==
    /\ ora_pc = "returned"
    /\ Len(ora_results.rows) = 1
    /\ ora_results.rows[1][4] = "2/3"
    /\ ~(Range(DA_list) \subseteq Range(background_list))
    /\ ~(Members(pathways_df[1]) \subseteq Range(background_list))

====
